---- MODULE Spec2Model ----
(***************************************************************************)
(* A model of pytagtime.py: the TagTimeLog class (construction, log        *)
(* parsing with optional smoothing, range trimming, tag ranking and the    *)
(* chart views).                                                           *)
(*                                                                         *)
(* Units.  Times are whole seconds since the epoch and local time is UTC.  *)
(* The interval is counted in quarter hours (3 is the default 0.75 h),     *)
(* sigma in twentieths (5 is 0.25), smoothing offsets in 1/150 (so that    *)
(* offset * interval hours is 6 * offset * interval seconds, a whole       *)
(* number).  Durations are exact fractions of an hour, or NaN.             *)
(***************************************************************************)
EXTENDS Integers, Sequences, FiniteSets, TLC

VARIABLES
    now,        \* the wall clock, read by datetime.datetime.now()
    defaults,   \* the list object that is the default value of startend
    caller,     \* the list object a caller passed as startend
    bound,      \* which of the two list objects startend is bound to
    callerIn,   \* the contents of the caller's list when it was passed
    self,       \* the fields of the TagTimeLog under construction / in use
    handle,     \* the lines of the log, in order
    pos,        \* number of lines the for loop of _parse_file has consumed
    loc,        \* the locals of _parse_file: D, V, n_excluded, offsetlist, weights
    emitted,    \* history of the running _parse_file: every Event appended to D/V
    dropped,    \* history of the running _parse_file: every Event the weekday test skipped
    used,       \* the bounds the .ix slice of __init__ was given, and the clock then
    pc,         \* where the program is
    exc,        \* the exception that ended the last call, if any
    plot,       \* the column labels the last view handed to the plotting layer
    ret,        \* the value the last top_n_tags call returned
    nobj        \* number of TagTimeLog constructions started

vars == <<now, defaults, caller, bound, callerIn, self, handle, pos, loc,
          emitted, dropped, used, pc, exc, plot, ret, nobj>>

----------------------------------------------------------------------------
(* Bounds of the model. *)
MaxLines == 2
MaxObjects == 2
MaxNow == 2
MaxTopN == 2
MaxExtra == 2

(* Constants of the program, in the units above. *)
EpochStart == 1
NoiseAmp == 15

----------------------------------------------------------------------------
(* Exact fractions and NaN: the values pandas/numpy floats take here. *)
Abs(x) == IF x < 0 THEN -x ELSE x

RECURSIVE GCD(_, _)
GCD(a, b) == IF b = 0 THEN a ELSE GCD(b, a % b)

NaN == [nan |-> TRUE, n |-> 0, d |-> 1]

Rat(n, d) ==
    IF d = 0 THEN NaN
    ELSE LET g == GCD(Abs(n), Abs(d))
             s == IF d < 0 THEN -1 ELSE 1
         IN [nan |-> FALSE, n |-> (s * n) \div g, d |-> (s * d) \div g]

Zero == Rat(0, 1)

RatAdd(x, y) ==
    IF x.nan \/ y.nan THEN NaN
    ELSE LET l == (x.d \div GCD(x.d, y.d)) * y.d
         IN Rat(x.n * (l \div x.d) + y.n * (l \div y.d), l)

RatMul(x, y) ==
    IF x.nan \/ y.nan THEN NaN
    ELSE LET a == Rat(x.n, y.d)
             b == Rat(y.n, x.d)
         IN Rat(a.n * b.n, a.d * b.d)

RatLess(x, y) == ~x.nan /\ ~y.nan /\ x.n * y.d < y.n * x.d

RECURSIVE RatSum(_)
RatSum(s) == IF s = <<>> THEN Zero ELSE RatAdd(Head(s), RatSum(Tail(s)))

(* pandas sums skip NaN cells. *)
RECURSIVE NanSum(_)
NanSum(s) ==
    IF s = <<>> THEN Zero
    ELSE IF Head(s).nan THEN NanSum(Tail(s))
    ELSE RatAdd(Head(s), NanSum(Tail(s)))

----------------------------------------------------------------------------
(* Optional values: None is the empty tuple, a value v is <<v>>. *)
None == <<>>
Some(v) == <<v>>

(* datetime.weekday() of a local time: Monday is 0; 1970-01-01 was a Thursday. *)
Weekday(t) == ((t \div 86400) + 3) % 7

----------------------------------------------------------------------------
(* Lines are sequences of lexemes (strings): whitespace lexemes, a         *)
(* bracketed annotation, and tokens.  In a line two lexemes that are not   *)
(* whitespace are always separated by whitespace.                          *)
WS == {" ", "\n"}
Annot == {"[note]"}

(* The decimal literals of the model, and int() of them. *)
NumLit == {"86160", "89760", "93360"}
IntOf(s) == CASE s = "86160" -> 86160
              [] s = "89760" -> 89760
              [] s = "93360" -> 93360

RECURSIVE RStripWs(_)
RStripWs(s) ==
    IF s # <<>> /\ s[Len(s)] \in WS THEN RStripWs(SubSeq(s, 1, Len(s) - 1)) ELSE s

FirstAnnot(s) == CHOOSE i \in 1..Len(s) : s[i] \in Annot /\ \A j \in 1..(i - 1) : s[j] \notin Annot

(* re.sub(r'\s*\[.*?\]\s*$', '', line): when the line ends, up to trailing  *)
(* whitespace, with ']', everything from the first '[' on, and the         *)
(* whitespace before it, is removed.                                       *)
StripAnnot(line) ==
    LET body == RStripWs(line)
    IN IF body # <<>> /\ body[Len(body)] \in Annot
       THEN RStripWs(SubSeq(line, 1, FirstAnnot(line) - 1))
       ELSE line

(* A split that leaves no empty field after trailing whitespace, as        *)
(* str.split() would.                                                      *)
SplitWsNoTrailing(s) ==
    IF s = <<>> THEN <<"">>
    ELSE (IF s[1] \in WS THEN <<"">> ELSE <<>>) \o SelectSeq(s, LAMBDA x : x \notin WS)

(* re.split(r'\s+', s): an empty field before leading and after trailing   *)
(* whitespace, and [''] for the empty string.                              *)
SplitWs(s) ==
    IF s = <<>> THEN <<"">>
    ELSE (IF s[1] \in WS THEN <<"">> ELSE <<>>)
         \o SelectSeq(s, LAMBDA x : x \notin WS)
         \o (IF s[Len(s)] \in WS THEN <<"">> ELSE <<>>)

Fields(line) == SplitWs(StripAnnot(line))

----------------------------------------------------------------------------
(* Smoothing kernel (_parse_file, before the loop over the lines). *)

RatInv(x) == IF x.nan \/ x.n = 0 THEN NaN ELSE Rat(x.d, x.n)

RatDiv(x, y) == RatMul(x, RatInv(y))

(* np.arange(start, stop, step) for a step that is not 0. *)
RECURSIVE Arange(_, _, _)
Arange(start, stop, step) ==
    IF (step > 0 /\ start < stop) \/ (step < 0 /\ start > stop)
    THEN <<start>> \o Arange(start + step, stop, step)
    ELSE <<>>

(* The offsets before the noise is added: [0.] without smoothing, else     *)
(* np.arange(-2*sigma, 2*sigma, (4*sigma+1)/15).                           *)
OffsetStep(sigma) == 2 * (sigma + 5)

BaseOffsets(smooth, sigma) ==
    IF smooth THEN Arange(-15 * sigma, 15 * sigma, OffsetStep(sigma)) ELSE <<0>>

(* The values np.random.uniform(-0.1, 0.1) is sampled at. *)
NoiseSet == {x \in {-7, 7} : -NoiseAmp <= x /\ x < NoiseAmp}

(* np.exp(-offset**2 / sigma**2) in fixed point (four decimals): with      *)
(* y = offset^2/(16 sigma^2) < 1, exp(-y) by its series and then squared   *)
(* four times.  0/0 is NaN and exp(-inf) is 0, as numpy computes them.     *)
Sq4(e) == (e * e) \div 10000

ExpNeg16(y) ==
    LET y2 == (y * y) \div 10000
        y3 == (y2 * y) \div 10000
        y4 == (y3 * y) \div 10000
        e  == 10000 - y + (y2 \div 2) - (y3 \div 6) + (y4 \div 24)
    IN Sq4(Sq4(Sq4(Sq4(e))))

Kernel(o, sigma) ==
    IF sigma = 0 THEN (IF o = 0 THEN NaN ELSE Zero)
    ELSE Rat(ExpNeg16((100 * o * o) \div (9 * sigma * sigma)), 10000)

(* weights = exp(...); weights /= weights.sum() *)
Weights(offsetlist, sigma) ==
    LET k == [i \in 1..Len(offsetlist) |-> Kernel(offsetlist[i], sigma)]
        total == RatSum(k)
    IN [i \in 1..Len(offsetlist) |-> RatDiv(k[i], total)]

----------------------------------------------------------------------------
(* The body of the loop `for line in handle` of _parse_file.  st holds the *)
(* locals the loop updates (D, V, n_excluded) and the two histories.       *)

ListAppend(f, key, x) ==
    IF key \in DOMAIN f THEN [f EXCEPT ![key] = Append(@, x)] ELSE f @@ (key :> <<x>>)

(* A test on the weekday of the Sample's own time. *)
TestedWeekdayOfSample(dt, dtx) == Weekday(dt)

(* The weekday the exclusion test looks at: that of the shifted time dtx. *)
TestedWeekday(dt, dtx) == Weekday(dtx)

(* Durations that ignore the multitag mode. *)
TagDurationNeverSplit(multitag, interval, ntags) == Rat(interval, 4)

TagDurationAlwaysSplit(multitag, interval, ntags) == Rat(interval, 4 * ntags)

(* duration = interval; if self.multitag == 'split': duration /= len(tags) *)
TagDuration(multitag, interval, ntags) ==
    IF multitag = "split" THEN Rat(interval, 4 * ntags) ELSE Rat(interval, 4)

(* V[t].append(weight * duration) *)
EventValue(weight, duration) == RatMul(weight, duration)

RECURSIVE OffsetLoop(_, _, _, _, _, _, _)
OffsetLoop(cfg, st, lineno, ti, t, dt, k) ==
    IF k > Len(cfg.weights) THEN st
    ELSE LET dtx == dt + 6 * cfg.offsetlist[k] * cfg.interval
             ev  == [line |-> lineno, ti |-> ti, tag |-> t, k |-> k, dtx |-> dtx,
                     val |-> EventValue(cfg.weights[k], cfg.duration)]
             st2 == IF TestedWeekday(dt, dtx) \in cfg.skipweekdays
                    THEN [st EXCEPT !.n_excluded = @ + 1,
                                    !.dropped = Append(@, ev)]
                    ELSE [st EXCEPT !.D = ListAppend(@, t, dtx),
                                    !.V = ListAppend(@, t, ev.val),
                                    !.emitted = Append(@, ev)]
         IN OffsetLoop(cfg, st2, lineno, ti, t, dt, k + 1)

RECURSIVE TagLoop(_, _, _, _, _, _)
TagLoop(cfg, st, lineno, tags, dt, ti) ==
    IF ti > Len(tags) THEN st
    ELSE TagLoop(cfg, OffsetLoop(cfg, st, lineno, ti, tags[ti], dt, 1),
                 lineno, tags, dt, ti + 1)

(* tags = fields[1:], less the skipped tags, cut to the first for 'first'. *)
KeptTags(fields, skiptags, multitag) ==
    LET tags == SelectSeq(Tail(fields), LAMBDA x : x \notin skiptags)
    IN IF multitag = "first" THEN SubSeq(tags, 1, IF Len(tags) < 1 THEN Len(tags) ELSE 1)
       ELSE tags

(* int(fields[0]) raises ValueError unless the field is a decimal literal. *)
IntFails(fields) == fields[1] \notin NumLit

LineStep(slf, lc, st, lineno, line) ==
    LET fields == Fields(line)
        dt     == IntOf(fields[1])
        tags   == KeptTags(fields, slf.skiptags, slf.multitag)
        cfg    == [weights |-> lc.weights, offsetlist |-> lc.offsetlist,
                   interval |-> slf.interval, skipweekdays |-> slf.skipweekdays,
                   duration |-> TagDuration(slf.multitag, slf.interval, Len(tags))]
    IN TagLoop(cfg, st, lineno, tags, dt, 1)

----------------------------------------------------------------------------
(* The Observation Table: a pandas DataFrame with one column per tag.      *)
(* cols are the column labels, idx the row labels (times) and val the      *)
(* cells, row by row.                                                      *)

EmptyFrame == [cols |-> <<>>, idx |-> <<>>, val |-> <<>>]

(* Python's order of the labels of the model (str comparison). *)
LabelOrder == <<"", "X1", "X2", "a", "b", "other">>
Rank(l) == CHOOSE i \in 1..Len(LabelOrder) : LabelOrder[i] = l

RECURSIVE SortedLabels(_)
SortedLabels(S) ==
    IF S = {} THEN <<>>
    ELSE LET m == CHOOSE x \in S : \A y \in S : Rank(x) <= Rank(y)
         IN <<m>> \o SortedLabels(S \ {m})

RECURSIVE SortedTimes(_)
SortedTimes(S) ==
    IF S = {} THEN <<>>
    ELSE LET m == CHOOSE x \in S : \A y \in S : x <= y
         IN <<m>> \o SortedTimes(S \ {m})

Range(s) == {s[i] : i \in 1..Len(s)}

HasDup(s) == \E i, j \in 1..Len(s) : i < j /\ s[i] = s[j]

IsMonotonic(s) == \A i \in 1..(Len(s) - 1) : s[i] <= s[i + 1]

(* Series that all carry the same index are put side by side; otherwise    *)
(* the frame is indexed by the sorted union and each Series reindexed.     *)
SameIndex(D) == \A k1, k2 \in DOMAIN D : D[k1] = D[k2]

(* Reindexing a Series whose index repeats a label raises. *)
FrameRaises(D) == ~SameIndex(D) /\ \E k \in DOMAIN D : HasDup(D[k])

CellAt(D, V, k, t) ==
    IF \E i \in 1..Len(D[k]) : D[k][i] = t
    THEN V[k][CHOOSE i \in 1..Len(D[k]) : D[k][i] = t]
    ELSE NaN

(* for f in D.keys(): D[f] = pd.Series(V[f], index=D[f]); pd.DataFrame(D) *)
BuildFrame(D, V) ==
    IF DOMAIN D = {} THEN EmptyFrame
    ELSE LET cols == SortedLabels(DOMAIN D)
         IN IF SameIndex(D)
            THEN LET idx == D[cols[1]]
                 IN [cols |-> cols, idx |-> idx,
                     val |-> [i \in 1..Len(idx) |-> [j \in 1..Len(cols) |-> V[cols[j]][i]]]]
            ELSE LET idx == SortedTimes(UNION {Range(D[k]) : k \in DOMAIN D})
                 IN [cols |-> cols, idx |-> idx,
                     val |-> [i \in 1..Len(idx) |->
                                [j \in 1..Len(cols) |-> CellAt(D, V, cols[j], idx[i])]]]

Rows(T, lo, hi) ==
    [cols |-> T.cols, idx |-> SubSeq(T.idx, lo, hi), val |-> SubSeq(T.val, lo, hi)]

(* Index.slice_locs: the position of a bound that is a row label, else,    *)
(* in a sorted index, the place it would be inserted at.  A bound that     *)
(* cannot be placed raises KeyError.                                       *)
Positions(idx, t) == {i \in 1..Len(idx) : idx[i] = t}

Min(S) == CHOOSE x \in S : \A y \in S : x <= y
Max(S) == CHOOSE x \in S : \A y \in S : x >= y

(* The first row of the slice: rows before it are < start. *)
StartLoc(idx, start) ==
    IF Positions(idx, start) # {} THEN Min(Positions(idx, start))
    ELSE Cardinality({i \in 1..Len(idx) : idx[i] < start}) + 1

(* The last row of the slice: the label slice includes its end point. *)
EndLoc(idx, end) ==
    IF Positions(idx, end) # {} THEN Max(Positions(idx, end))
    ELSE Cardinality({i \in 1..Len(idx) : idx[i] <= end})

Placeable(idx, t) ==
    \/ IsMonotonic(idx)
    \/ Cardinality(Positions(idx, t)) = 1

SliceRaises(T, start, end) == ~Placeable(T.idx, start) \/ ~Placeable(T.idx, end)

(* self.D.ix[start:end] *)
IxSlice(T, start, end) == Rows(T, StartLoc(T.idx, start), EndLoc(T.idx, end))

----------------------------------------------------------------------------
(* Inputs: configurations, logs and startend arguments. *)

Cfg(interval, multitag, skiptags, skipweekdays, smooth, sigma, obfuscate) ==
    [interval |-> interval, multitag |-> multitag, skiptags |-> skiptags,
     skipweekdays |-> skipweekdays, smooth |-> smooth, sigma |-> sigma,
     obfuscate |-> obfuscate]

(* What the specification calls a valid configuration. *)
ValidConfig(c) ==
    /\ c.multitag \in {"first", "split", "double"}
    /\ c.interval > 0
    /\ c.sigma > 0

PlainCfgs ==
    {Cfg(i, m, st, sw, FALSE, 1, FALSE) :
        i \in {3, 4}, m \in {"first", "split", "double"},
        st \in {{}, {"a"}, {"", "a", "b"}}, sw \in {{}, {3}, {4}}}

SmoothCfgs ==
    {Cfg(i, m, {}, sw, TRUE, 1, FALSE) :
        i \in {3, 4}, m \in {"first", "split", "double"}, sw \in {{}, {3}, {4}}}

BadCfgs ==
    {Cfg(0, "split", {}, {}, FALSE, 1, FALSE), Cfg(-4, "split", {}, {}, FALSE, 1, FALSE),
     Cfg(3, "bogus", {}, {}, FALSE, 1, FALSE), Cfg(3, "split", {}, {}, FALSE, 0, FALSE),
     Cfg(3, "split", {}, {}, TRUE, 0, FALSE), Cfg(3, "split", {}, {}, TRUE, -1, FALSE),
     Cfg(3, "split", {}, {}, FALSE, -1, FALSE), Cfg(3, "double", {}, {}, FALSE, 0, FALSE),
     Cfg(3, "double", {}, {}, TRUE, -1, FALSE)}

(* The pings of a log are an hour apart: 23:56 on Thursday 1970-01-01,     *)
(* then 00:56 and 01:56 on the Friday.                                     *)
PingTime == <<"86160", "89760", "93360">>

(* The lines a ping can be logged as; the last two carry no timestamp. *)
LineShapes(t) ==
    {<<t, " ", "a", "\n">>, <<t, " ", "b", "\n">>, <<t, " ", "a", " ", "b", "\n">>,
     <<t, " ", "a">>,
     <<t, " ", "a", " ", "[note]", "\n">>, <<t, " ", "a", " ", "a", "\n">>,
     <<"\n">>, <<"x", " ", "a", "\n">>}

RECURSIVE LogsOfLen(_)
LogsOfLen(n) ==
    IF n = 0 THEN {<<>>}
    ELSE {Append(l, x) : l \in LogsOfLen(n - 1), x \in LineShapes(PingTime[n])}

(* The log of the specification's scenario, read from a file (each line    *)
(* ends with a newline) and handed over as a list of strings.              *)
ScenarioFile ==
    <<<<"86160", " ", "a", "\n">>, <<"89760", " ", "b", "\n">>,
      <<"93360", " ", "a", " ", "b", "\n">>>>
ScenarioList ==
    <<<<"86160", " ", "a">>, <<"89760", " ", "b">>, <<"93360", " ", "a", " ", "b">>>>

ScenarioNoted ==
    <<<<"86160", " ", "a", " ", "[note]", "\n">>, <<"89760", " ", "b", " ", "[note]", "\n">>,
      <<"93360", " ", "a", " ", "b", " ", "[note]", "\n">>>>

Logs == {ScenarioFile, ScenarioList, ScenarioNoted} \cup UNION {LogsOfLen(n) : n \in 1..MaxLines}

(* The logs the smoothed runs read. *)
ShortLogs == {ScenarioFile} \cup LogsOfLen(1)

(* startend: the default list object, or a list of the caller's. *)
DefaultSE == [dflt |-> TRUE, lst |-> <<None, None>>]
CallerSE(s, e) == [dflt |-> FALSE, lst |-> <<s, e>>]

----------------------------------------------------------------------------
(* The program. *)

NoExc == [type |-> "", where |-> "", lineno |-> 0]
Exc(type, where) == [type |-> type, where |-> where, lineno |-> 0]

NoLoc == [D |-> <<>>, V |-> <<>>, n_excluded |-> 0, offsetlist |-> <<>>, weights |-> <<>>]
NoUsed == [start |-> 0, end |-> 0, at |-> 0]

Init ==
    /\ now = 100000
    /\ defaults = <<None, None>>
    /\ caller = <<None, None>>
    /\ callerIn = <<None, None>>
    /\ bound = "default"
    /\ self = [cfg |-> Cfg(3, "first", {}, {}, TRUE, 20, FALSE), D |-> None, rng |-> None]
    /\ handle = <<>>
    /\ pos = 0
    /\ loc = NoLoc
    /\ emitted = <<>>
    /\ dropped = <<>>
    /\ used = NoUsed
    /\ pc = "idle"
    /\ exc = NoExc
    /\ plot = <<>>
    /\ ret = None
    /\ nobj = 0

(* The clock advances between calls. *)
Tick ==
    /\ pc \in {"idle", "ready", "raised"}
    /\ now < 100000 + MaxNow
    /\ now' = now + 1
    /\ UNCHANGED <<defaults, caller, bound, callerIn, self, handle, pos, loc,
                   emitted, dropped, used, pc, exc, plot, ret, nobj>>

(* TagTimeLog.__init__ up to the loop of _parse_file: the fields are set   *)
(* and the offsets and weights computed.                                   *)
Construct(Cfgs, LogSet, SESet, maxobj) ==
    /\ pc \in {"idle", "ready", "raised"}
    /\ nobj < maxobj
    /\ \E c \in Cfgs, log \in LogSet, se \in SESet :
         LET base == IF c.smooth /\ OffsetStep(c.sigma) = 0 THEN <<>>
                     ELSE BaseOffsets(c.smooth, c.sigma)
         IN \E noise \in [1..Len(base) -> IF c.smooth THEN NoiseSet ELSE {0}] :
              LET offsetlist == [i \in 1..Len(base) |-> base[i] + noise[i]]
              IN /\ self' = [cfg |-> c, D |-> None, rng |-> None]
                 /\ handle' = log
                 /\ bound' = IF se.dflt THEN "default" ELSE "caller"
                 /\ caller' = se.lst
                 /\ callerIn' = se.lst
                 /\ loc' = [D |-> <<>>, V |-> <<>>, n_excluded |-> 0,
                            offsetlist |-> offsetlist,
                            weights |-> Weights(offsetlist, c.sigma)]
                 \* np.arange raises ZeroDivisionError for a step of 0
                 /\ pc' = IF c.smooth /\ OffsetStep(c.sigma) = 0 THEN "raised" ELSE "parse"
                 /\ exc' = IF c.smooth /\ OffsetStep(c.sigma) = 0
                           THEN Exc("ZeroDivisionError", "arange") ELSE NoExc
    /\ pos' = 0
    /\ emitted' = <<>>
    /\ dropped' = <<>>
    /\ used' = NoUsed
    /\ plot' = <<>>
    /\ ret' = None
    /\ nobj' = nobj + 1
    /\ UNCHANGED <<now, defaults>>

(* One turn of `for line in handle` on a line whose first field is a number. *)
ParseLine ==
    /\ pc = "parse"
    /\ pos < Len(handle)
    /\ ~IntFails(Fields(handle[pos + 1]))
    /\ LET st == LineStep(self.cfg, loc,
                          [D |-> loc.D, V |-> loc.V, n_excluded |-> loc.n_excluded,
                           emitted |-> emitted, dropped |-> dropped],
                          pos + 1, handle[pos + 1])
       IN /\ loc' = [loc EXCEPT !.D = st.D, !.V = st.V, !.n_excluded = st.n_excluded]
          /\ emitted' = st.emitted
          /\ dropped' = st.dropped
    /\ pos' = pos + 1
    /\ UNCHANGED <<now, defaults, caller, bound, callerIn, self, handle, used, pc,
                   exc, plot, ret, nobj>>

(* int(fields[0]) raises ValueError; nothing catches it. *)
ParseLineFails ==
    /\ pc = "parse"
    /\ pos < Len(handle)
    /\ IntFails(Fields(handle[pos + 1]))
    /\ pc' = "raised"
    /\ exc' = Exc("ValueError", "int")
    /\ UNCHANGED <<now, defaults, caller, bound, callerIn, self, handle, pos, loc,
                   emitted, dropped, used, plot, ret, nobj>>

(* The end of _parse_file: the Series and the DataFrame are built, and    *)
(* the locals of the call are gone.                                        *)
ParseEnd ==
    /\ pc = "parse"
    /\ pos = Len(handle)
    /\ IF FrameRaises(loc.D)
       THEN /\ pc' = "raised"
            /\ exc' = Exc("ValueError", "DataFrame")
            /\ self' = self
       ELSE /\ pc' = "trim"
            /\ exc' = exc
            /\ self' = [self EXCEPT !.D = Some(BuildFrame(loc.D, loc.V))]
    /\ loc' = NoLoc
    /\ emitted' = <<>>
    /\ dropped' = <<>>
    /\ UNCHANGED <<now, defaults, caller, bound, callerIn, handle, pos,
                   used, plot, ret, nobj>>

(* dt2d: the date of a time, as a day number. *)
dt2d(t) == t \div 86400

(* The rest of __init__: the None entries of startend are filled in, the   *)
(* table is sliced and the range label made.                               *)
Trim ==
    /\ pc = "trim"
    /\ LET lst == IF bound = "default" THEN defaults ELSE caller
           se0 == IF lst[1] = None THEN Some(EpochStart) ELSE lst[1]
           se1 == IF lst[2] = None THEN Some(now) ELSE lst[2]
           T   == self.D[1]
           R   == IxSlice(T, se0[1], se1[1])
       IN /\ defaults' = IF bound = "default" THEN <<se0, se1>> ELSE defaults
          /\ caller' = IF bound = "caller" THEN <<se0, se1>> ELSE caller
          /\ used' = [start |-> se0[1], end |-> se1[1], at |-> now]
          /\ IF SliceRaises(T, se0[1], se1[1])
             THEN /\ pc' = "raised"
                  /\ exc' = Exc("KeyError", "ix")
                  /\ self' = self
             ELSE IF R.idx = <<>>
             THEN /\ pc' = "raised"
                  /\ exc' = Exc("ValueError", "dt2d")
                  /\ self' = [self EXCEPT !.D = Some(R)]
             ELSE /\ pc' = "ready"
                  /\ exc' = exc
                  /\ self' = [self EXCEPT !.D = Some(R),
                                          !.rng = Some(<<dt2d(Min(Range(R.idx))),
                                                         dt2d(Max(Range(R.idx)))>>)]
    /\ UNCHANGED <<now, callerIn, bound, handle, pos, loc, emitted, dropped,
                   plot, ret, nobj>>

----------------------------------------------------------------------------
(* Tag ranking and the views. *)

(* self.D.resample('D', how='sum', label='left').sum(): a total per column, *)
(* NaN cells skipped.                                                      *)
RECURSIVE ColSum(_, _, _)
ColSum(T, j, i) ==
    IF i > Len(T.idx) THEN Zero
    ELSE IF T.val[i][j].nan THEN ColSum(T, j, i + 1)
    ELSE RatAdd(T.val[i][j], ColSum(T, j, i + 1))

ColTotal(T, j) == ColSum(T, j, 1)

RECURSIVE Totals(_, _)
Totals(T, j) == IF j > Len(T.cols) THEN <<>> ELSE <<ColTotal(T, j)>> \o Totals(T, j + 1)

(* sorted(keys, key=total, reverse=True): descending, equal keys in their   *)
(* original order.  tot are the totals by column position, js positions.   *)
RECURSIVE InsertDesc(_, _, _)
InsertDesc(tot, sorted, j) ==
    IF sorted = <<>> THEN <<j>>
    ELSE IF RatLess(tot[Head(sorted)], tot[j])
    THEN <<j>> \o sorted
    ELSE <<Head(sorted)>> \o InsertDesc(tot, Tail(sorted), j)

RECURSIVE SortDesc(_, _, _)
SortDesc(tot, sorted, j) ==
    IF j > Len(tot) THEN sorted ELSE SortDesc(tot, InsertDesc(tot, sorted, j), j + 1)

RECURSIVE LabelsAt(_, _)
LabelsAt(cols, js) == IF js = <<>> THEN <<>> ELSE <<cols[Head(js)]>> \o LabelsAt(cols, Tail(js))

RankedLabels(T) == LabelsAt(T.cols, SortDesc(Totals(T, 1), <<>>, 1))

(* keys[:n] *)
PySlice(keys, n) ==
    IF n >= 0 THEN SubSeq(keys, 1, IF n < Len(keys) THEN n ELSE Len(keys))
    ELSE SubSeq(keys, 1, Len(keys) + n)

(* An append without the test `if x in keys`. *)
AppendExtrasUnchecked(keys, extra) == keys \o extra

(* for x in extra_tags: if x in keys: continue; keys.append(x) *)
RECURSIVE AppendExtras(_, _)
AppendExtras(keys, extra) ==
    IF extra = <<>> THEN keys
    ELSE IF Head(extra) \in Range(keys) THEN AppendExtras(keys, Tail(extra))
    ELSE AppendExtras(Append(keys, Head(extra)), Tail(extra))

(* Comparing the totals of a label that names two columns raises. *)
RankRaises(T) == HasDup(T.cols)

(* top_n_tags(n, extra_tags); extra_tags is None or <<list>>. *)
TopN(T, n, extra_tags) ==
    LET keys == PySlice(RankedLabels(T), n)
    IN IF extra_tags = None THEN keys ELSE AppendExtras(keys, extra_tags[1])

(* self.D[tags]: a new frame of the named columns; a label that is no      *)
(* column raises KeyError.                                                 *)
SelectRaises(T, tags) == \E i \in 1..Len(tags) : tags[i] \notin Range(T.cols)

RECURSIVE ColPositions(_, _)
ColPositions(T, tags) ==
    IF tags = <<>> THEN <<>>
    ELSE SelectSeq([j \in 1..Len(T.cols) |-> j], LAMBDA j : T.cols[j] = Head(tags))
         \o ColPositions(T, Tail(tags))

SelectCols(T, tags) ==
    LET js == ColPositions(T, tags)
    IN [cols |-> [k \in 1..Len(js) |-> T.cols[js[k]]],
        idx  |-> T.idx,
        val  |-> [i \in 1..Len(T.idx) |-> [k \in 1..Len(js) |-> T.val[i][js[k]]]]]

(* self.D[[t for t in self.D.keys() if t not in tags]].sum(axis=1) *)
OtherSeries(T, tags) ==
    LET js == SelectSeq([j \in 1..Len(T.cols) |-> j], LAMBDA j : T.cols[j] \notin Range(tags))
    IN [i \in 1..Len(T.idx) |-> NanSum([k \in 1..Len(js) |-> T.val[i][js[k]]])]

(* D['other'] = series: the column is replaced, or added as the last one. *)
SetColumn(T, label, series) ==
    IF label \in Range(T.cols)
    THEN [T EXCEPT !.val = [i \in 1..Len(T.idx) |->
                              [j \in 1..Len(T.cols) |->
                                 IF T.cols[j] = label THEN series[i] ELSE T.val[i][j]]]]
    ELSE [T EXCEPT !.cols = Append(@, label),
                   !.val = [i \in 1..Len(T.idx) |-> Append(T.val[i], series[i])]]

(* The labels random.choice can build; two of the 36^4. *)
Pseudonyms == {"X1", "X2"}

(* D.rename(columns={k: k2}, inplace=True) *)
Rename(cols, k, k2) == [j \in 1..Len(cols) |-> IF cols[j] = k THEN k2 ELSE cols[j]]

(* The loop of _obfuscate over keys, the labels D had when it started;     *)
(* names[i] is the pseudonym drawn for keys[i].                            *)
RECURSIVE RenameLoop(_, _, _, _)
RenameLoop(cols, keys, names, i) ==
    IF i > Len(keys) THEN cols
    ELSE IF keys[i] = "other" THEN RenameLoop(cols, keys, names, i + 1)
    ELSE RenameLoop(Rename(cols, keys[i], names[i]), keys, names, i + 1)

(* Which object _obfuscate renames the columns of in pie: the frame bound   *)
(* to the local D, which is self.D itself when no tags were selected.      *)
ObfuscateCols(obfuscate, cols, names) ==
    IF obfuscate THEN RenameLoop(cols, cols, names, 1) ELSE cols

(* The start every view shares: the tags to show, the frame D of them and  *)
(* the optional 'other' column.  needTags: the view replaces tags=None by  *)
(* self.top_n_tags(1000), a call that lacks an argument (TypeError).       *)
(* Result: the exception, the local frame, and whether it is self.D.       *)
ViewFrame(T, tags, top_n, other, needTags) ==
    IF top_n # None /\ RankRaises(T)
    THEN [exc |-> Exc("ValueError", "sorted"), D |-> EmptyFrame, alias |-> FALSE]
    ELSE LET tags1 == IF top_n # None THEN Some(TopN(T, top_n[1], tags)) ELSE tags
         IN IF tags1 = None /\ (needTags \/ other)
            THEN [exc |-> Exc("TypeError", IF needTags THEN "top_n_tags" ELSE "in"),
                  D |-> EmptyFrame, alias |-> FALSE]
            ELSE IF tags1 = None
            THEN [exc |-> NoExc, D |-> T, alias |-> TRUE]
            ELSE IF SelectRaises(T, tags1[1])
            THEN [exc |-> Exc("KeyError", "getitem"), D |-> EmptyFrame, alias |-> FALSE]
            ELSE LET sel == SelectCols(T, tags1[1])
                 IN [exc |-> NoExc,
                     D |-> IF other THEN SetColumn(sel, "other", OtherSeries(T, tags1[1]))
                           ELSE sel,
                     alias |-> FALSE]


(* The arguments of the views and of top_n_tags. *)
RECURSIVE ListsUpTo(_, _)
ListsUpTo(S, n) ==
    IF n = 0 THEN {<<>>}
    ELSE ListsUpTo(S, n - 1) \cup {Append(l, x) : l \in ListsUpTo(S, n - 1), x \in S}

TagArgs == {None} \cup {Some(l) : l \in ListsUpTo({"a", "c"}, MaxExtra)}

(* The tags and top_n arguments the views are called with. *)
ViewTags == {None, Some(<<>>), Some(<<"a">>), Some(<<"b", "a">>), Some(<<"c">>)}

ViewTopN == {None, Some(1)}

NameChoices(n, obfuscate) ==
    IF obfuscate THEN [1..n -> Pseudonyms] ELSE {[i \in 1..n |-> ""]}

ViewUnchanged ==
    UNCHANGED <<now, defaults, caller, bound, callerIn, handle, pos, loc,
                emitted, dropped, used, pc, nobj>>

(* pie: _obfuscate is applied to the local frame D before it is resampled. *)
Pie ==
    /\ pc = "ready"
    /\ \E tags \in ViewTags, top_n \in ViewTopN, other \in BOOLEAN :
         LET vf == ViewFrame(self.D[1], tags, top_n, other, FALSE)
         IN IF vf.exc # NoExc
            THEN /\ exc' = vf.exc
                 /\ plot' = <<>>
                 /\ self' = self
            ELSE \E names \in NameChoices(Len(vf.D.cols), self.cfg.obfuscate) :
                   LET D2 == [vf.D EXCEPT
                                !.cols = ObfuscateCols(self.cfg.obfuscate, vf.D.cols, names)]
                   IN /\ self' = IF vf.alias THEN [self EXCEPT !.D = Some(D2)] ELSE self
                      /\ exc' = IF RankRaises(D2) THEN Exc("ValueError", "sorted") ELSE NoExc
                      /\ plot' = IF RankRaises(D2) THEN <<>> ELSE RankedLabels(D2)
    /\ ret' = None
    /\ ViewUnchanged

(* The other views aggregate the local frame into a new one (resample or   *)
(* groupby) and apply _obfuscate to that.                                  *)
Aggregated(needTags) ==
    /\ pc = "ready"
    /\ \E tags \in ViewTags, top_n \in ViewTopN, other \in BOOLEAN :
         LET vf == ViewFrame(self.D[1], tags, top_n, other, needTags)
         IN IF vf.exc # NoExc
            THEN /\ exc' = vf.exc
                 /\ plot' = <<>>
            ELSE \E names \in NameChoices(Len(vf.D.cols), self.cfg.obfuscate) :
                   /\ exc' = NoExc
                   /\ plot' = ObfuscateCols(self.cfg.obfuscate, vf.D.cols, names)
    /\ self' = self
    /\ ret' = None
    /\ ViewUnchanged

Trend == Aggregated(FALSE)

HourOfTheWeek == Aggregated(TRUE)

HourSums == Aggregated(TRUE)

DayOfTheWeekSums == Aggregated(TRUE)

(* A call of top_n_tags with an argument list. *)
TopNTags ==
    /\ pc = "ready"
    /\ \E n \in (-1)..MaxTopN, extra \in TagArgs :
         IF RankRaises(self.D[1])
         THEN /\ exc' = Exc("ValueError", "sorted")
              /\ ret' = None
         ELSE /\ exc' = NoExc
              /\ ret' = Some([n |-> n, extra |-> extra, keys |-> TopN(self.D[1], n, extra)])
    /\ plot' = <<>>
    /\ self' = self
    /\ ViewUnchanged

----------------------------------------------------------------------------
(* The specifications. *)

ParseConstruct == Construct(PlainCfgs \cup BadCfgs, Logs, {DefaultSE}, 1)

SmoothConstruct == Construct(SmoothCfgs, ShortLogs, {DefaultSE}, 1)

NextParse == ParseConstruct \/ SmoothConstruct \/ ParseLine \/ ParseLineFails \/ ParseEnd \/ Trim

SpecParse == Init /\ [][NextParse]_vars

(* One object, then any sequence of views on it. *)
ViewCfgs ==
    {Cfg(4, m, {}, {}, FALSE, 1, o) : m \in {"split", "double"}, o \in BOOLEAN}

ViewLogs == {ScenarioFile, ScenarioList, <<<<"86160", " ", "a", " ", "b", "\n">>>>}

ViewConstruct == Construct(ViewCfgs, ViewLogs, {DefaultSE}, 1)

NextViews ==
    \/ ViewConstruct \/ ParseLine \/ ParseEnd \/ Trim
    \/ Pie \/ Trend \/ HourOfTheWeek \/ HourSums \/ DayOfTheWeekSums

SpecViews == Init /\ [][NextViews]_vars

(* One object, then calls of top_n_tags, and of pie, on it. *)
NextRank == ViewConstruct \/ ParseLine \/ ParseEnd \/ Trim \/ Pie \/ TopNTags

SpecRank == Init /\ [][NextRank]_vars

(* Several constructions, one after the other, as the clock advances. *)
CtorCfgs == {Cfg(i, "split", {}, {}, FALSE, 1, FALSE) : i \in {3, 4}}

(* The last log has its two lines out of time order. *)
CtorLogs ==
    {ScenarioFile, <<<<"86160", " ", "a", "\n">>>>,
     <<<<"89760", " ", "a", " ", "[note]", "\n">>, <<"86160", " ", "a", " ", "[note]", "\n">>>>,
     <<<<"86160", " ", "a", " ", "[note]", "\n">>, <<"89760", " ", "b", " ", "[note]", "\n">>>>}

SESet ==
    {DefaultSE} \cup {CallerSE(s, e) : s \in {None, Some(86160), Some(89760), Some(90000)},
                                      e \in {None, Some(89760), Some(90000), Some(93360)}}

CtorConstruct == Construct(CtorCfgs, CtorLogs, SESet, MaxObjects)

NextCtor == CtorConstruct \/ Tick \/ ParseLine \/ ParseEnd \/ Trim

SpecCtor == Init /\ [][NextCtor]_vars

----------------------------------------------------------------------------
(* Properties.  While _parse_file runs, the lines 1..pos are the Samples   *)
(* read so far.                                                            *)

Vals(evs) == [i \in 1..Len(evs) |-> evs[i].val]

EmittedOf(l) == SelectSeq(emitted, LAMBDA e : e.line = l)
DroppedOf(l) == SelectSeq(dropped, LAMBDA e : e.line = l)
EmittedAt(l, ti) == SelectSeq(emitted, LAMBDA e : e.line = l /\ e.ti = ti)
DroppedAt(l, ti) == SelectSeq(dropped, LAMBDA e : e.line = l /\ e.ti = ti)

SampleTime(l) == IntOf(Fields(handle[l])[1])
SampleTags(l) == KeptTags(Fields(handle[l]), self.cfg.skiptags, self.cfg.multitag)
FullInterval == Rat(self.cfg.interval, 4)

(* Smoothing disabled, multitag 'first' or 'split', in a configuration    *)
(* the specification calls valid (a positive interval and sigma).          *)
SplitCase ==
    /\ pc = "parse"
    /\ ValidConfig(self.cfg)
    /\ ~self.cfg.smooth
    /\ self.cfg.multitag \in {"first", "split"}

(* C1, as stated: with smoothing disabled and multitag 'first' or 'split', *)
(* the durations of the Events emitted for a Sample sum to the interval,   *)
(* whatever the interval and whatever tags and weekdays are excluded.      *)
C1_SumIsIntervalAlways ==
    SplitCase => \A l \in 1..pos : RatSum(Vals(EmittedOf(l))) = FullInterval

(* C1, amended: with smoothing disabled, multitag 'first' or 'split', a    *)
(* positive interval and a positive sigma, the durations of the Events     *)
(* emitted for a Sample sum to exactly the interval when the Sample keeps  *)
(* at least one tag after the excluded-tag filter and its weekday is not   *)
(* excluded; any other Sample emits no Event.                              *)
C1_SumIsInterval ==
    SplitCase =>
        \A l \in 1..pos :
            IF SampleTags(l) # <<>> /\ Weekday(SampleTime(l)) \notin self.cfg.skipweekdays
            THEN RatSum(Vals(EmittedOf(l))) = FullInterval
            ELSE EmittedOf(l) = <<>>

(* A Sample split over two or more tags has been read. *)
C1_Witness ==
    /\ SplitCase
    /\ self.cfg.multitag = "split"
    /\ \E l \in 1..pos : Len(EmittedOf(l)) >= 2

DoubleCase == pc = "parse" /\ ValidConfig(self.cfg) /\ self.cfg.multitag = "double"

(* C2, as stated: with multitag 'double', the Events emitted for a Sample  *)
(* and a tag of it that survives the excluded-tag filter carry a total     *)
(* duration of exactly the interval.                                       *)
C2_FullIntervalPerTag ==
    DoubleCase =>
        \A l \in 1..pos : \A t \in Range(SampleTags(l)) :
            RatSum(Vals(SelectSeq(EmittedOf(l), LAMBDA e : e.tag = t))) = FullInterval

(* C2, amended: with multitag 'double', a positive interval and a positive *)
(* sigma, for every Sample and every occurrence of a tag that survives the *)
(* excluded-tag filter, the Events emitted and the Events discarded by the *)
(* excluded-weekday test for that occurrence together carry exactly the    *)
(* interval, so the emitted ones carry the interval when none is           *)
(* discarded; the duration is never divided by the number of tags.         *)
C2_FullIntervalPerOccurrence ==
    DoubleCase =>
        \A l \in 1..pos : \A ti \in 1..Len(SampleTags(l)) :
            /\ RatAdd(RatSum(Vals(EmittedAt(l, ti))), RatSum(Vals(DroppedAt(l, ti))))
                 = FullInterval
            /\ DroppedAt(l, ti) = <<>> => RatSum(Vals(EmittedAt(l, ti))) = FullInterval
            /\ \A i \in 1..Len(EmittedAt(l, ti)) : EmittedAt(l, ti)[i].tag = SampleTags(l)[ti]

(* A Sample with two surviving tags has been read in 'double' mode. *)
C2_Witness ==
    /\ DoubleCase
    /\ \E l \in 1..pos : Len(SampleTags(l)) >= 2 /\ EmittedAt(l, 2) # <<>>

ColumnTotal(T, label) ==
    IF label \in Range(T.cols)
    THEN ColTotal(T, CHOOSE j \in 1..Len(T.cols) : T.cols[j] = label)
    ELSE Zero

ScenarioCfg == Cfg(4, "split", {}, {}, FALSE, 1, FALSE)

ScenarioRead(log) == handle = log /\ self.cfg = ScenarioCfg /\ pc = "ready"

----------------------------------------------------------------------------
(* top_n_tags: ret holds the arguments and the list of the last call. *)

ExtraList == IF ret[1].extra = None THEN <<>> ELSE ret[1].extra[1]

(* The place of the first occurrence of x in the list s. *)
FirstAt(s, x) == Min({i \in 1..Len(s) : s[i] = x})

(* The first m keys are m columns of the largest totals, largest first. *)
RankedFirst(T, keys, m) ==
    /\ m <= Len(keys)
    /\ \A i \in 1..m : keys[i] \in Range(T.cols)
    /\ \A i \in 1..(m - 1) : ~RatLess(ColumnTotal(T, keys[i]), ColumnTotal(T, keys[i + 1]))
    /\ \A c \in Range(T.cols) \ {keys[i] : i \in 1..m} :
          \A i \in 1..m : ~RatLess(ColumnTotal(T, keys[i]), ColumnTotal(T, c))

(* The keys after the first m are the extras not among the first m, each    *)
(* once, in the order of their first occurrence in extra.                  *)
ExtrasFollow(keys, m, extra) ==
    LET head == {keys[i] : i \in 1..m}
        rest == SubSeq(keys, m + 1, Len(keys))
    IN /\ Range(rest) = Range(extra) \ head
       /\ \A i, j \in 1..Len(rest) : i < j => FirstAt(extra, rest[i]) < FirstAt(extra, rest[j])

TopNContract(T, r, extra, m) ==
    /\ Len(r.keys) <= r.n + Len(extra)
    /\ ~HasDup(r.keys)
    /\ RankedFirst(T, r.keys, m)
    /\ ExtrasFollow(r.keys, m, extra)

(* C4, as stated: for every integer n and every list extra, top_n_tags     *)
(* returns at most n + len(extra) tags, none twice, the n tags of the      *)
(* largest totals (all of them when there are fewer) first and the extras  *)
(* not already present after them in their given order.                    *)
C4_TopNTagsEveryInteger ==
    ret # None =>
        LET T == self.D[1]
            n == IF ret[1].n < 0 THEN 0 ELSE ret[1].n
        IN TopNContract(T, ret[1], ExtraList, IF n < Len(T.cols) THEN n ELSE Len(T.cols))

(* C4, amended: for every integer n >= 0 and every list extra (repeated    *)
(* or already ranked entries included), top_n_tags returns at most         *)
(* n + len(extra) tags, none twice: first the min(n, number of columns)    *)
(* tags of the largest totals in descending order, then the extras not     *)
(* among them, each once, in the order of their first occurrence.          *)
C4_TopNTags ==
    (ret # None /\ ret[1].n >= 0) =>
        LET T == self.D[1]
            n == ret[1].n
        IN TopNContract(T, ret[1], ExtraList, IF n < Len(T.cols) THEN n ELSE Len(T.cols))

(* top_n_tags(1, extra) has returned for an extra list that repeats an     *)
(* entry and names the top tag, on a table of two or more columns.         *)
C4_Witness ==
    /\ ret # None
    /\ ret[1].n = 1
    /\ Len(self.D[1].cols) >= 2
    /\ HasDup(ExtraList)
    /\ ret[1].keys[1] \in Range(ExtraList)

(* C5: a view call leaves the table self.D as it was: the same column      *)
(* labels, rows and values.                                                *)
C5_ViewsLeaveTable ==
    [][(pc = "ready" /\ pc' = "ready") => self'.D = self.D]_vars

----------------------------------------------------------------------------
(* Errors. *)

BadLines == {i \in 1..Len(handle) : IntFails(Fields(handle[i]))}

(* C6: when a line of the log has no number as its first field, parsing    *)
(* ends with a MalformedLineError that names the line, and no table is     *)
(* made available.                                                         *)
C6_MalformedLineError ==
    (BadLines # {} /\ pc \notin {"idle", "parse"} /\ exc.where # "arange") =>
        /\ pc = "raised"
        /\ exc.type = "MalformedLineError"
        /\ exc.lineno = Min(BadLines)
        /\ self.D = None

(* C7: under an invalid configuration the constructor raises               *)
(* InvalidConfigurationError before a line is read, and no Event is        *)
(* emitted.                                                                *)
C7_InvalidConfigurationError ==
    (pc # "idle" /\ ~ValidConfig(self.cfg)) =>
        /\ pc = "raised"
        /\ exc.type = "InvalidConfigurationError"
        /\ pos = 0
        /\ emitted = <<>>

----------------------------------------------------------------------------
(* Excluded weekdays. *)

(* The Events of the Samples read so far, one per Sample, surviving tag    *)
(* occurrence and offset.                                                  *)
ExpectedKeys ==
    UNION {{<<l, ti, k>> : ti \in 1..Len(SampleTags(l)), k \in 1..Len(loc.weights)} :
             l \in 1..pos}

KeysOf(evs) == {<<evs[i].line, evs[i].ti, evs[i].k>> : i \in 1..Len(evs)}

ShiftedTime(e) == SampleTime(e.line) + 6 * loc.offsetlist[e.k] * self.cfg.interval

UnsharedValue(e) ==
    RatMul(loc.weights[e.k],
           IF self.cfg.multitag = "split"
           THEN Rat(self.cfg.interval, 4 * Len(SampleTags(e.line)))
           ELSE Rat(self.cfg.interval, 4))

TimesOf(evs, t) ==
    LET of == SelectSeq(evs, LAMBDA e : e.tag = t) IN [i \in 1..Len(of) |-> of[i].dtx]

ValuesOf(evs, t) == Vals(SelectSeq(evs, LAMBDA e : e.tag = t))

(* C8: an Event is discarded exactly when the weekday of its shifted time  *)
(* is excluded; every Event is either discarded or in the table, never     *)
(* both; the table holds the surviving Events with weight times duration,  *)
(* whatever was discarded of the same Sample; and n_excluded counts the    *)
(* discarded Events.                                                       *)
C8_ShiftedWeekdayExclusion ==
    pc = "parse" =>
        /\ \A i \in 1..Len(dropped) :
              /\ dropped[i].dtx = ShiftedTime(dropped[i])
              /\ Weekday(dropped[i].dtx) \in self.cfg.skipweekdays
        /\ \A i \in 1..Len(emitted) :
              /\ emitted[i].dtx = ShiftedTime(emitted[i])
              /\ Weekday(emitted[i].dtx) \notin self.cfg.skipweekdays
              /\ emitted[i].val = UnsharedValue(emitted[i])
        /\ KeysOf(emitted) \cup KeysOf(dropped) = ExpectedKeys
        /\ KeysOf(emitted) \cap KeysOf(dropped) = {}
        /\ Len(emitted) + Len(dropped) = Cardinality(ExpectedKeys)
        /\ DOMAIN loc.D = {emitted[i].tag : i \in 1..Len(emitted)}
        /\ DOMAIN loc.V = DOMAIN loc.D
        /\ \A t \in DOMAIN loc.D :
              /\ loc.D[t] = TimesOf(emitted, t)
              /\ loc.V[t] = ValuesOf(emitted, t)
        /\ loc.n_excluded = Len(dropped)

(* The whole log has been read, and of a Sample whose own weekday is not   *)
(* excluded some Events were discarded and some were kept.                 *)
C8_Witness ==
    /\ pc = "parse"
    /\ pos = Len(handle)
    /\ \E l \in 1..pos :
          /\ Weekday(SampleTime(l)) \notin self.cfg.skipweekdays
          /\ EmittedOf(l) # <<>>
          /\ DroppedOf(l) # <<>>

----------------------------------------------------------------------------
(* The constructor's range. *)

(* The rows of T whose time is in [start, end], in T's order. *)
RowsWithin(T, start, end) ==
    LET keep == SelectSeq([i \in 1..Len(T.idx) |-> i],
                          LAMBDA i : start <= T.idx[i] /\ T.idx[i] <= end)
    IN [cols |-> T.cols,
        idx  |-> [k \in 1..Len(keep) |-> T.idx[keep[k]]],
        val  |-> [k \in 1..Len(keep) |-> T.val[keep[k]]]]

(* C9: when the constructor's slice returns, the table holds exactly the   *)
(* rows with start <= t <= end; it is the whole table when start and end   *)
(* are the least and the greatest of its times; and slicing it again with  *)
(* the same bounds changes nothing.                                        *)
C9_TrimKeepsRange ==
    [][(pc = "trim" /\ exc'.where # "ix") =>
          LET T == self.D[1]
              R == self'.D[1]
              s == used'.start
              e == used'.end
          IN /\ R = RowsWithin(T, s, e)
             /\ (T.idx # <<>> /\ s = Min(Range(T.idx)) /\ e = Max(Range(T.idx))) => R = T
             /\ IxSlice(R, s, e) = R]_vars

(* C10: a construction that leaves startend unspecified slices with        *)
(* start = epoch + 1 s and end = the time of that construction, and a      *)
(* list passed as startend is afterwards as the caller made it.            *)
C10_FreshBounds ==
    (pc \in {"ready", "raised"} /\ used # NoUsed) =>
        /\ bound = "default" => (used.start = EpochStart /\ used.end = used.at)
        /\ bound = "caller" => caller = callerIn

====
